---- MODULE Spec2Model ----
(***************************************************************************)
(* TinyWiiBackupManagerInstaller: the installer session (src/main.rs), its *)
(* install / download / probe operations (src/util.rs) and the disk and    *)
(* registry state they act on.                                             *)
(*                                                                         *)
(* Strings whose characters matter (version strings, the OS product name)  *)
(* are sequences of one-character strings.  The filesystem is a function   *)
(* from the paths that exist to their contents; the uninstall registry key *)
(* is a record holding whether it exists and its values.                   *)
(***************************************************************************)
EXTENDS Integers, Sequences, FiniteSets, TLC

VARIABLES
    proc,       \* the installer process: "none", "running", "exiting"
    sessions,   \* how many times the installer was started
    state,      \* main.rs State (tag and payload)
    pending,    \* operations scheduled with Task::perform, not yet run
    inbox,      \* completion messages not yet handed to State::update
    platform,   \* what State::view probed: util::get_os() and util::get_arch()
    fs,         \* the filesystem: path -> content, for the paths that exist
    reg,        \* the HKCU uninstall key
    machine,    \* the host: environment variable, CPU features, ProductName
    http,       \* the last HTTP exchange
    script,     \* the detached cleanup script process: "absent", "sleeping", ...
    exe_name,   \* the file name of std::env::current_exe() of the running process
    phases      \* history: the states the running session has been in, oldest first

vars == <<proc, sessions, state, pending, inbox, platform, fs, reg, machine, http, script,
          exe_name, phases>>

(***************************************************************************)
(* Bounds                                                                  *)
(***************************************************************************)
\* how many times the installer is started
MaxSessions == 2

\* how many calls of one uninstall run return an I/O error
MaxFaults == 1

\* how long the version strings are that the download URL is built from
MaxVersionLen == 2

(***************************************************************************)
(* Paths and file contents                                                 *)
(***************************************************************************)
INSTALL_DIR == "LocalAppData\\TinyWiiBackupManager"
EXE_PATH == "LocalAppData\\TinyWiiBackupManager\\TinyWiiBackupManager.exe"
UNINSTALLER_PATH == "LocalAppData\\TinyWiiBackupManager\\uninstall.ps1"
UNINSTALL_EXE_PATH == "LocalAppData\\TinyWiiBackupManager\\uninstall.exe"
DESKTOP_SHORTCUT_PATH == "Desktop\\TinyWiiBackupManager.lnk"
START_MENU_DIR == "StartMenu\\Programs\\TinyWiiBackupManager"
START_MENU_SHORTCUT_PATH == "StartMenu\\Programs\\TinyWiiBackupManager\\TinyWiiBackupManager.lnk"
AUX_DATA_DIR == "AppData\\TinyWiiBackupManager"
CLEANUP_SCRIPT_PATH == "Temp\\twbm-cleanup"

DIR == "<dir>"
UNINSTALL_PS1 == "uninstall.ps1 bytes"
SHELL_LINK == "lnk: target=TinyWiiBackupManager.exe workdir=install_dir"
TRUNCATED == "<truncated>"

\* The paths inside directory p.
Under(p) ==
    CASE p = INSTALL_DIR -> {EXE_PATH, UNINSTALLER_PATH, UNINSTALL_EXE_PATH}
      [] p = START_MENU_DIR -> {START_MENU_SHORTCUT_PATH}
      [] OTHER -> {}

Parent(p) ==
    CASE p \in Under(INSTALL_DIR) -> INSTALL_DIR
      [] p \in Under(START_MENU_DIR) -> START_MENU_DIR
      [] OTHER -> "<root>"

exists(f, p) == p \in DOMAIN f

Restrict(f, S) == [p \in (DOMAIN f) \cap S |-> f[p]]

\* fs::remove_dir_all, fs::remove_file
remove_dir_all(f, p) == Restrict(f, (DOMAIN f) \ ({p} \cup Under(p)))

remove_file(f, p) == Restrict(f, (DOMAIN f) \ {p})

\* fs::create_dir, fs::create_dir_all: the directory exists afterwards, empty if new
create_dir(f, p) == IF exists(f, p) THEN f ELSE (p :> DIR) @@ f

\* File::create + write, fs::write, fs::copy: the file holds content c afterwards
write_file(f, p, c) == (p :> c) @@ f

\* A file can be created only inside an existing directory.
can_create(f, p) == Parent(p) = "<root>" \/ exists(f, Parent(p))

(***************************************************************************)
(* Archive bytes                                                           *)
(***************************************************************************)
ZIP_A == "zip{TinyWiiBackupManager.exe=A}"
ZIP_B == "zip{TinyWiiBackupManager.exe=B,readme.txt}"
ZIP_README == "zip{readme.txt}"
NOT_ZIP == "<html>Not Found</html>"

Bytes == {ZIP_A, ZIP_B, ZIP_README, NOT_ZIP}

\* the bytes field of a task or message that carries none
NO_BYTES == ""

\* ZipArchive::new succeeds
ZipValid(bytes) == bytes \in {ZIP_A, ZIP_B, ZIP_README}

\* archive.by_name("TinyWiiBackupManager.exe") succeeds
ZipHasExe(bytes) == bytes \in {ZIP_A, ZIP_B}

\* the bytes of that entry
ZipExe(bytes) == IF bytes = ZIP_A THEN "exe A" ELSE "exe B"

(***************************************************************************)
(* The uninstall registry key                                              *)
(***************************************************************************)
NoValues == [n \in {} |-> ""]

NoKey == [exists |-> FALSE, values |-> NoValues]

UNINSTALL_CMD == "powershell.exe -ExecutionPolicy Bypass -WindowStyle Hidden -File LocalAppData\\TinyWiiBackupManager\\uninstall.ps1"

\* util.rs:85-92, the values install() sets, in the order it sets them
RegWrites(version) ==
    << <<"DisplayName", "TinyWiiBackupManager">>,
       <<"DisplayVersion", version>>,
       <<"Publisher", "Manuel Quarneti">>,
       <<"InstallLocation", INSTALL_DIR>>,
       <<"DisplayIcon", EXE_PATH>>,
       <<"UninstallString", UNINSTALL_CMD>>,
       <<"NoModify", 1>>,
       <<"NoRepair", 1>> >>

RegValueNames == {"DisplayName", "DisplayVersion", "Publisher", "InstallLocation",
                  "DisplayIcon", "UninstallString", "NoModify", "NoRepair"}

\* key.set_string / key.set_u32
set_value(values, w) == (w[1] :> w[2]) @@ values

\* the first n writes of ws applied in order
RECURSIVE ApplyWrites(_, _, _)
ApplyWrites(values, ws, n) ==
    IF n = 0 THEN values
    ELSE set_value(ApplyWrites(values, ws, n - 1), ws[n])

(***************************************************************************)
(* util::install (util.rs:17-95).  The function has no await point: it     *)
(* runs to its return in one go.  `fail` names the call that returns an    *)
(* I/O error in this run ("none": no call does); every call before it has  *)
(* had its effect, and `?` returns at the first error.                     *)
(***************************************************************************)
InstallFailPoints ==
    {"none", "dirs", "remove_dir_all", "create_dir", "file_create", "io_copy",
     "write_uninstaller", "remove_lnk", "shell_link_new", "create_lnk",
     "remove_start_menu", "create_start_menu", "copy_lnk", "reg_create"}
    \cup RegValueNames

Fail(s, e) == [s EXCEPT !.err = e]

\* util.rs:18-32
ResolveDirs(s, fail) ==
    IF s.err # "" THEN s
    ELSE IF fail = "dirs" THEN Fail(s, "Failed to get base dirs")
    ELSE s

\* OpenArchive leaving the parse to the extraction
OpenArchive_NoValidate(s, bytes) == s

\* util.rs:34-36  ZipArchive::new(cursor)?
OpenArchive(s, bytes) ==
    IF s.err # "" THEN s
    ELSE IF ~ZipValid(bytes) THEN Fail(s, "CorruptArchive")
    ELSE s

\* RemoveExistingInstall without the create_dir that follows remove_dir_all
RemoveExistingInstall_NoRecreate(s, fail) ==
    IF s.err # "" THEN s
    ELSE IF exists(s.fs, INSTALL_DIR)
    THEN IF fail = "remove_dir_all" THEN Fail(s, "FilesystemError")
         ELSE [s EXCEPT !.fs = remove_dir_all(s.fs, INSTALL_DIR)]
    ELSE IF fail = "create_dir" THEN Fail(s, "FilesystemError")
         ELSE [s EXCEPT !.fs = create_dir(s.fs, INSTALL_DIR)]

\* RemoveExistingInstall extracting over the directory that is there
RemoveExistingInstall_KeepFiles(s, fail) ==
    IF s.err # "" THEN s
    ELSE IF exists(s.fs, INSTALL_DIR) THEN s
    ELSE IF fail = "create_dir" THEN Fail(s, "FilesystemError")
         ELSE [s EXCEPT !.fs = create_dir(s.fs, INSTALL_DIR)]

\* util.rs:38-44  Remove existing install
RemoveExistingInstall(s, fail) ==
    IF s.err # "" THEN s
    ELSE IF exists(s.fs, INSTALL_DIR)
    THEN IF fail = "remove_dir_all" THEN Fail(s, "FilesystemError")
         ELSE LET removed == [s EXCEPT !.fs = remove_dir_all(s.fs, INSTALL_DIR)]
              IN  IF fail = "create_dir" THEN Fail(removed, "FilesystemError")
                  ELSE [removed EXCEPT !.fs = create_dir(removed.fs, INSTALL_DIR)]
    ELSE IF fail = "create_dir" THEN Fail(s, "FilesystemError")
         ELSE [s EXCEPT !.fs = create_dir(s.fs, INSTALL_DIR)]

\* ExtractExe carrying on when the archive has no executable entry
ExtractExe_IgnoreMissing(s, bytes, fail) ==
    IF s.err # "" THEN s
    ELSE IF ~ZipHasExe(bytes) THEN s
    ELSE IF fail = "file_create" \/ ~can_create(s.fs, EXE_PATH)
         THEN Fail(s, "FilesystemError")
    ELSE IF fail = "io_copy"
         THEN Fail([s EXCEPT !.fs = write_file(s.fs, EXE_PATH, TRUNCATED)], "FilesystemError")
    ELSE [s EXCEPT !.fs = write_file(s.fs, EXE_PATH, ZipExe(bytes))]

\* util.rs:46-49  Extract the dist .zip into the install dir
ExtractExe(s, bytes, fail) ==
    IF s.err # "" THEN s
    ELSE IF ~ZipHasExe(bytes) THEN Fail(s, "ExecutableMissing")
    ELSE IF fail = "file_create" \/ ~can_create(s.fs, EXE_PATH)
         THEN Fail(s, "FilesystemError")
    ELSE IF fail = "io_copy"
         THEN Fail([s EXCEPT !.fs = write_file(s.fs, EXE_PATH, TRUNCATED)], "FilesystemError")
    ELSE [s EXCEPT !.fs = write_file(s.fs, EXE_PATH, ZipExe(bytes))]

\* util.rs:51-52  Write the uninstaller script
WriteUninstaller(s, fail) ==
    IF s.err # "" THEN s
    ELSE IF fail = "write_uninstaller" \/ ~can_create(s.fs, UNINSTALLER_PATH)
         THEN Fail(s, "FilesystemError")
    ELSE [s EXCEPT !.fs = write_file(s.fs, UNINSTALLER_PATH, UNINSTALL_PS1)]

\* DesktopShortcut carrying on when the shortcut cannot be created
DesktopShortcut_IgnoreError(s, fail) ==
    IF s.err # "" THEN s
    ELSE IF exists(s.fs, DESKTOP_SHORTCUT_PATH) /\ fail = "remove_lnk" THEN s
    ELSE LET removed == [s EXCEPT !.fs = remove_file(s.fs, DESKTOP_SHORTCUT_PATH)]
         IN  IF fail \in {"shell_link_new", "create_lnk"} \/ ~exists(s.fs, EXE_PATH)
             THEN removed
             ELSE [removed EXCEPT !.fs = write_file(removed.fs, DESKTOP_SHORTCUT_PATH, SHELL_LINK)]

\* util.rs:54-63  Create desktop shortcut
DesktopShortcut(s, fail) ==
    IF s.err # "" THEN s
    ELSE IF exists(s.fs, DESKTOP_SHORTCUT_PATH) /\ fail = "remove_lnk"
         THEN Fail(s, "ShellIntegrationError")
    ELSE LET removed == [s EXCEPT !.fs = remove_file(s.fs, DESKTOP_SHORTCUT_PATH)]
         IN  IF fail \in {"shell_link_new", "create_lnk"} \/ ~exists(s.fs, EXE_PATH)
             THEN Fail(removed, "ShellIntegrationError")
             ELSE [removed EXCEPT !.fs = write_file(removed.fs, DESKTOP_SHORTCUT_PATH, SHELL_LINK)]

\* util.rs:65-74  Create start menu shortcut
StartMenuShortcut(s, fail) ==
    IF s.err # "" THEN s
    ELSE IF exists(s.fs, START_MENU_DIR) /\ fail = "remove_start_menu"
         THEN Fail(s, "ShellIntegrationError")
    ELSE LET removed == [s EXCEPT !.fs = remove_dir_all(s.fs, START_MENU_DIR)]
         IN  IF fail = "create_start_menu" THEN Fail(removed, "ShellIntegrationError")
             ELSE LET created == [removed EXCEPT !.fs = create_dir(removed.fs, START_MENU_DIR)]
                  IN  IF fail = "copy_lnk" \/ ~exists(created.fs, DESKTOP_SHORTCUT_PATH)
                      THEN Fail(created, "ShellIntegrationError")
                      ELSE [created EXCEPT !.fs =
                               write_file(created.fs, START_MENU_SHORTCUT_PATH,
                                          created.fs[DESKTOP_SHORTCUT_PATH])]

\* util.rs:76-92  Write windows registry keys
RegistryKeys(s, version, fail) ==
    IF s.err # "" THEN s
    ELSE IF fail = "reg_create" THEN Fail(s, "ShellIntegrationError")
    ELSE LET ws == RegWrites(version)
             failing == {i \in 1..Len(ws) : ws[i][1] = fail}
             n == IF failing = {} THEN Len(ws) ELSE (CHOOSE i \in failing : TRUE) - 1
             written == [s EXCEPT !.reg = [exists |-> TRUE,
                                           values |-> ApplyWrites(s.reg.values, ws, n)]]
         IN  IF failing = {} THEN written ELSE Fail(written, "ShellIntegrationError")

\* util.rs:17-95.  The result: the disk and registry afterwards, and Ok(version)
\* (err = "") or Err(err).
install(f, r, version, bytes, fail) ==
    LET s0 == [fs |-> f, reg |-> r, err |-> ""]
        s1 == ResolveDirs(s0, fail)
        s2 == OpenArchive(s1, bytes)
        s3 == RemoveExistingInstall(s2, fail)
        s4 == ExtractExe(s3, bytes, fail)
        s5 == WriteUninstaller(s4, fail)
        s6 == DesktopShortcut(s5, fail)
        s7 == StartMenuShortcut(s6, fail)
        s8 == RegistryKeys(s7, version, fail)
    IN  [fs |-> s8.fs, reg |-> s8.reg, ok |-> s8.err = "", err |-> s8.err, version |-> version]

\* util.rs:97-102
is_installed(f) == exists(f, INSTALL_DIR)

(***************************************************************************)
(* util::uninstall.  main.rs:198 calls it; util.rs does not hold it.  It   *)
(* is modelled from the specification's section 4.5: the four removals in  *)
(* order, each skipped when its target is absent and each carried on from  *)
(* when it fails (section 9), every error surfaced in the result (section  *)
(* 7); then the install directory, directly or by the detached script.     *)
(* `fails` is the set of calls that return an I/O error in this run.       *)
(***************************************************************************)
UninstallFailPoints ==
    {"remove_desktop", "remove_start_menu", "remove_aux", "delete_key",
     "remove_install_dir", "write_script", "spawn_script"}

\* one removal of the filesystem: skipped when absent, kept when it fails;
\* steps lists the calls made, in order
RemoveStep(s, p, point, fails) ==
    IF ~exists(s.fs, p) THEN s
    ELSE LET called == [s EXCEPT !.steps = Append(s.steps, point)]
         IN  IF point \in fails THEN Fail(called, "UninstallError")
             ELSE [called EXCEPT !.fs = remove_dir_all(s.fs, p)]

RemoveRegistryKey(s, fails) ==
    IF ~s.reg.exists THEN s
    ELSE LET called == [s EXCEPT !.steps = Append(s.steps, "delete_key")]
         IN  IF "delete_key" \in fails THEN Fail(called, "UninstallError")
             ELSE [called EXCEPT !.reg = NoKey]

\* self_is_running_from_install_dir = false: delete InstallLocation directly
RemoveInstallDirDirect(s, fails) == RemoveStep(s, INSTALL_DIR, "remove_install_dir", fails)

\* self_is_running_from_install_dir = true: write the cleanup script outside
\* InstallLocation and launch it detached
SpawnCleanupScript(s, fails) ==
    LET called == [s EXCEPT !.steps = Append(s.steps, "write_script")]
    IN  IF "write_script" \in fails THEN Fail(called, "SelfDestructSpawnError")
        ELSE LET written == [called EXCEPT
                                !.fs = write_file(s.fs, CLEANUP_SCRIPT_PATH, "cleanup script"),
                                !.steps = Append(called.steps, "spawn_script")]
             IN  IF "spawn_script" \in fails THEN Fail(written, "SelfDestructSpawnError")
                 ELSE [written EXCEPT !.spawned = TRUE]

UninstallFaultSets == {F \in SUBSET UninstallFailPoints : Cardinality(F) <= MaxFaults}

\* uninstall dealing with the install directory before the shell integration
uninstall_InstallDirFirst(f, r, is_uninstaller, fails) ==
    LET s0 == [fs |-> f, reg |-> r, err |-> "", spawned |-> FALSE, steps |-> <<>>]
        s1 == IF is_uninstaller THEN SpawnCleanupScript(s0, fails)
              ELSE RemoveInstallDirDirect(s0, fails)
        s2 == RemoveStep(s1, DESKTOP_SHORTCUT_PATH, "remove_desktop", fails)
        s3 == RemoveStep(s2, START_MENU_DIR, "remove_start_menu", fails)
        s4 == RemoveStep(s3, AUX_DATA_DIR, "remove_aux", fails)
        s5 == RemoveRegistryKey(s4, fails)
    IN  [fs |-> s5.fs, reg |-> s5.reg, ok |-> s5.err = "", err |-> s5.err,
         spawned |-> s5.spawned, steps |-> s5.steps]

uninstall(f, r, is_uninstaller, fails) ==
    LET s0 == [fs |-> f, reg |-> r, err |-> "", spawned |-> FALSE, steps |-> <<>>]
        s1 == RemoveStep(s0, DESKTOP_SHORTCUT_PATH, "remove_desktop", fails)
        s2 == RemoveStep(s1, START_MENU_DIR, "remove_start_menu", fails)
        s3 == RemoveStep(s2, AUX_DATA_DIR, "remove_aux", fails)
        s4 == RemoveRegistryKey(s3, fails)
        s5 == IF is_uninstaller THEN SpawnCleanupScript(s4, fails)
              ELSE RemoveInstallDirDirect(s4, fails)
    IN  [fs |-> s5.fs, reg |-> s5.reg, ok |-> s5.err = "", err |-> s5.err,
         spawned |-> s5.spawned, steps |-> s5.steps]

(***************************************************************************)
(* Platform probe (util.rs:152-229)                                        *)
(***************************************************************************)
PN_WINDOWS_10_PRO == <<"W", "i", "n", "d", "o", "w", "s", " ", "1", "0", " ", "P", "r", "o">>
PN_WINDOWS_10 == <<"W", "i", "n", "d", "o", "w", "s", " ", "1", "0">>
PN_WINDOWS_7 == <<"W", "i", "n", "d", "o", "w", "s", " ", "7", " ", "U", "l", "t", "i", "m", "a", "t", "e">>
PN_WINDOWS_8_1 == <<"W", "i", "n", "d", "o", "w", "s", " ", "8", ".", "1">>
PN_WINDOWS_SERVER == <<"W", "i", "n", "d", "o", "w", "s", " ", "S", "e", "r", "v", "e", "r", " ", "2", "0", "1", "6">>
MARKER_WINDOWS_10 == <<"W", "i", "n", "d", "o", "w", "s", " ", "1", "0">>

ProductNames == {PN_WINDOWS_10_PRO, PN_WINDOWS_10, PN_WINDOWS_7, PN_WINDOWS_8_1, PN_WINDOWS_SERVER}

\* str::contains
contains(str, pat) ==
    \E i \in 0..(Len(str) - Len(pat)) : SubSeq(str, i + 1, i + Len(pat)) = pat

\* What reading HKLM\...\CurrentVersion\ProductName gives: Ok(name) or Err.
RegistryQueries ==
    {[ok |-> FALSE, name |-> <<>>]} \cup {[ok |-> TRUE, name |-> n] : n \in ProductNames}

\* What env::var("PROCESSOR_ARCHITEW6432") gives: Ok(value) or Err (not present).
ArchEnvs ==
    {[ok |-> FALSE, value |-> ""]} \cup
    {[ok |-> TRUE, value |-> v] : v \in {"AMD64", "ARM64", "x86", "IA64"}}

Machines ==
    [product_name : RegistryQueries, arch_env : ArchEnvs,
     avx2 : BOOLEAN, fma : BOOLEAN, bmi2 : BOOLEAN]

\* util.rs:175-184.  Ok(os) or Err.
get_os(m) ==
    IF ~m.product_name.ok THEN [ok |-> FALSE, os |-> ""]
    ELSE IF contains(m.product_name.name, MARKER_WINDOWS_10)
         THEN [ok |-> TRUE, os |-> "Windows"]
         ELSE [ok |-> TRUE, os |-> "Windows7"]

\* get_arch asking for any one of the three CPU features
get_arch_AnyFeature(m) ==
    IF m.arch_env.ok /\ m.arch_env.value = "AMD64"
    THEN IF m.avx2 \/ m.fma \/ m.bmi2 THEN "X86_64v3" ELSE "X86_64"
    ELSE IF m.arch_env.ok /\ m.arch_env.value = "ARM64" THEN "Aarch64"
    ELSE "I686"

\* util.rs:214-229
get_arch(m) ==
    IF m.arch_env.ok /\ m.arch_env.value = "AMD64"
    THEN IF m.avx2 /\ m.fma /\ m.bmi2 THEN "X86_64v3" ELSE "X86_64"
    ELSE IF m.arch_env.ok /\ m.arch_env.value = "ARM64" THEN "Aarch64"
    ELSE "I686"

\* util.rs:159-165
Os_as_str(os) ==
    IF os = "Windows" THEN <<"w", "i", "n", "d", "o", "w", "s">>
    ELSE <<"w", "i", "n", "d", "o", "w", "s", "7">>

\* Arch_as_str giving x86-64-v3 the token of x86-64
Arch_as_str_NoV3(arch) ==
    CASE arch = "I686" -> <<"x", "8", "6">>
      [] arch = "X86_64" -> <<"x", "8", "6", "_", "6", "4">>
      [] arch = "X86_64v3" -> <<"x", "8", "6", "_", "6", "4">>
      [] arch = "Aarch64" -> <<"a", "r", "m", "6", "4">>

\* util.rs:194-202
Arch_as_str(arch) ==
    CASE arch = "I686" -> <<"x", "8", "6">>
      [] arch = "X86_64" -> <<"x", "8", "6", "_", "6", "4">>
      [] arch = "X86_64v3" -> <<"x", "8", "6", "_", "6", "4", "-", "v", "3">>
      [] arch = "Aarch64" -> <<"a", "r", "m", "6", "4">>

NoPlatform == [probed |-> FALSE, os |-> [ok |-> FALSE, os |-> ""], arch |-> ""]

\* State::view, main.rs:89-90
probe(m) == [probed |-> TRUE, os |-> get_os(m), arch |-> get_arch(m)]

(***************************************************************************)
(* Network (util.rs:104-116, 141-150)                                      *)
(***************************************************************************)
V1 == <<"1">>
V2_NL == <<"2", "\n">>

\* What the version endpoint can answer: a transport error, or a status and a
\* body that is text or not.
VersionResponses ==
    {[sent |-> FALSE, status |-> 0, text |-> FALSE, body |-> <<>>],
     [sent |-> TRUE, status |-> 200, text |-> TRUE, body |-> V1],
     [sent |-> TRUE, status |-> 200, text |-> TRUE, body |-> V2_NL],
     [sent |-> TRUE, status |-> 200, text |-> FALSE, body |-> <<>>]}

\* What the archive endpoint can answer.
ArchiveResponses ==
    {[sent |-> FALSE, status |-> 0, body |-> ""]} \cup
    {[sent |-> TRUE, status |-> 200, body |-> b] : b \in Bytes} \cup
    {[sent |-> TRUE, status |-> 404, body |-> NOT_ZIP]}

\* util.rs:141-150  send()?.as_str()?.to_string()
get_latest_version(resp) ==
    IF ~resp.sent THEN [ok |-> FALSE, version |-> <<>>, err |-> "FetchError"]
    ELSE IF ~resp.text THEN [ok |-> FALSE, version |-> <<>>, err |-> "FetchError"]
    ELSE [ok |-> TRUE, version |-> resp.body, err |-> ""]

\* util.rs:106, the pieces of the format string between its arguments
URL_RELEASE ==
    <<"h", "t", "t", "p", "s", ":", "/", "/", "g", "i", "t", "h", "u", "b", ".", "c", "o", "m",
      "/", "m", "q", "1", "/", "T", "i", "n", "y", "W", "i", "i", "B", "a", "c", "k", "u", "p",
      "M", "a", "n", "a", "g", "e", "r", "/", "r", "e", "l", "e", "a", "s", "e", "s", "/", "d",
      "o", "w", "n", "l", "o", "a", "d", "/", "v">>

URL_FILE ==
    <<"/", "T", "i", "n", "y", "W", "i", "i", "B", "a", "c", "k", "u", "p", "M", "a", "n", "a",
      "g", "e", "r", "-", "v">>

URL_DASH == <<"-">>

URL_ZIP == <<".", "z", "i", "p">>

\* util.rs:105-111  format!(...): the pieces and the arguments concatenated
download_url(version, os, arch) ==
    URL_RELEASE \o version \o URL_FILE \o version \o URL_DASH \o Os_as_str(os)
    \o URL_DASH \o Arch_as_str(arch) \o URL_ZIP

\* util.rs:104-116  minreq::get(&url).send()?.into_bytes()
download(version, resp) ==
    IF ~resp.sent THEN [ok |-> FALSE, version |-> version, bytes |-> NO_BYTES, err |-> "FetchError"]
    ELSE [ok |-> TRUE, version |-> version, bytes |-> resp.body, err |-> ""]

\* the last exchange: which operation made it, the URL it asked for (download),
\* whether an answer came and its status; and what get_latest_version returned
NoHttp == [op |-> "none", url |-> <<>>, sent |-> FALSE, status |-> 0, resolved |-> <<>>]

(***************************************************************************)
(* The session: main.rs State, Message, State::new, State::view,           *)
(* State::update                                                           *)
(***************************************************************************)
St(tag, version, msg, is_uninstaller) ==
    [tag |-> tag, version |-> version, msg |-> msg, is_uninstaller |-> is_uninstaller]

NoTask == [op |-> "none", version |-> <<>>, os |-> "", arch |-> "", bytes |-> NO_BYTES,
           is_uninstaller |-> FALSE]

Msg(tag, ok, version, bytes, err) ==
    [tag |-> tag, ok |-> ok, version |-> version, bytes |-> bytes, err |-> err]

\* main.rs:44-59  State::new: the state and the task it schedules
State_new(name) ==
    IF name = "uninstall.exe"
    THEN [state |-> St("AskingUninstallConfirmation", <<>>, "", TRUE), task |-> NoTask]
    ELSE [state |-> St("FetchingLatestVersion", <<>>, "", FALSE),
          task |-> [NoTask EXCEPT !.op = "get_latest_version"]]

\* on_GotLatestVersion asking the version endpoint again after an error
on_GotLatestVersion_RetryOnError(m) ==
    IF m.ok THEN [state |-> St("GotLatestVersion", m.version, "", FALSE), task |-> NoTask]
    ELSE [state |-> St("FetchingLatestVersion", <<>>, "", FALSE),
          task |-> [NoTask EXCEPT !.op = "get_latest_version"]]

\* main.rs:153-160
on_GotLatestVersion(m) ==
    IF m.ok THEN [state |-> St("GotLatestVersion", m.version, "", FALSE), task |-> NoTask]
    ELSE [state |-> St("CouldNotFetchLatestVersion", <<>>, m.err, FALSE), task |-> NoTask]

\* main.rs:161-167
on_Download(version, os, arch) ==
    [state |-> St("Downloading", version, "", FALSE),
     task |-> [NoTask EXCEPT !.op = "download", !.version = version, !.os = os, !.arch = arch]]

\* main.rs:168-180
on_Downloaded(m) ==
    IF m.ok
    THEN [state |-> St("Installing", m.version, "", FALSE),
          task |-> [NoTask EXCEPT !.op = "install", !.version = m.version, !.bytes = m.bytes]]
    ELSE [state |-> St("Errored", <<>>, m.err, FALSE), task |-> NoTask]

\* main.rs:181-190
on_Installed(m) ==
    IF m.ok THEN [state |-> St("Installed", m.version, "", FALSE), task |-> NoTask]
    ELSE [state |-> St("Errored", <<>>, m.err, FALSE), task |-> NoTask]

\* on_AskUninstallConfirmation starting the uninstall without the confirmation
on_AskUninstallConfirmation_NoConfirmation ==
    [state |-> St("Uninstalling", <<>>, "", FALSE),
     task |-> [NoTask EXCEPT !.op = "uninstall"]]

\* main.rs:191-194
on_AskUninstallConfirmation ==
    [state |-> St("AskingUninstallConfirmation", <<>>, "", FALSE), task |-> NoTask]

\* on_Uninstall dropping the flag of the message
on_Uninstall_AlwaysDirect(is_uninstaller) ==
    [state |-> St("Uninstalling", <<>>, "", FALSE),
     task |-> [NoTask EXCEPT !.op = "uninstall"]]

\* main.rs:195-201
on_Uninstall(is_uninstaller) ==
    [state |-> St("Uninstalling", <<>>, "", FALSE),
     task |-> [NoTask EXCEPT !.op = "uninstall", !.is_uninstaller = is_uninstaller]]

\* on_Uninstalled showing success whatever the result
on_Uninstalled_IgnoreError(m) ==
    [state |-> St("Uninstalled", <<>>, "", FALSE), task |-> NoTask]

\* main.rs:202-208
on_Uninstalled(m) ==
    IF m.ok THEN [state |-> St("Uninstalled", <<>>, "", FALSE), task |-> NoTask]
    ELSE [state |-> St("Errored", <<>>, m.err, FALSE), task |-> NoTask]

\* main.rs:151-210  State::update for the messages a finished task sends
update(m) ==
    CASE m.tag = "GotLatestVersion" -> on_GotLatestVersion(m)
      [] m.tag = "Downloaded" -> on_Downloaded(m)
      [] m.tag = "Installed" -> on_Installed(m)
      [] m.tag = "Uninstalled" -> on_Uninstalled(m)

\* the tasks an update adds to those in flight
Scheduled(r) == IF r.task.op = "none" THEN <<>> ELSE <<r.task>>

\* main.rs:64-77, 93-104: the Uninstall button
view_offers_uninstall(st, f) ==
    st.tag \in {"CouldNotFetchLatestVersion", "GotLatestVersion"} /\ is_installed(f)

\* the Download button left enabled while the download runs
view_offers_download_WhileDownloading(st, pf) ==
    st.tag \in {"GotLatestVersion", "Downloading"} /\ pf.os.ok

\* main.rs:88-121: the Download button, whose message carries the probed Os and Arch
view_offers_download(st, pf) == st.tag = "GotLatestVersion" /\ pf.os.ok

\* main.rs:135-143: the Proceed button
view_offers_proceed(st) == st.tag = "AskingUninstallConfirmation"

\* the entry of the history for a state: its variant and the version it carries
Phase(st) == [tag |-> st.tag, version |-> st.version]

\* main.rs:45-47: what current_exe() is named
ExeNames == {"TinyWiiBackupManagerInstaller.exe", "uninstall.exe"}

\* operations scheduled or finished and not yet handled
InFlight == Len(pending) + Len(inbox)

(***************************************************************************)
(* Initial states                                                          *)
(***************************************************************************)
NoFiles == [p \in {} |-> ""]

\* A machine that never ran the installer.
FreshFs == NoFiles

\* A machine on which an earlier release of the installer, the one that copied
\* itself as uninstall.exe (main.rs:45-49), installed version 0, and on which
\* the application has since written its data directory.
V0 == <<"0">>

LegacyFs ==
    (INSTALL_DIR :> DIR) @@ (EXE_PATH :> "exe 0") @@ (UNINSTALL_EXE_PATH :> "installer 0")
    @@ (DESKTOP_SHORTCUT_PATH :> SHELL_LINK) @@ (START_MENU_DIR :> DIR)
    @@ (START_MENU_SHORTCUT_PATH :> SHELL_LINK) @@ (AUX_DATA_DIR :> DIR)

LegacyReg ==
    [exists |-> TRUE,
     values |-> ApplyWrites(NoValues, RegWrites(V0), 8)]

\* The hosts the session is explored on: one whose OS probe succeeds and one
\* whose OS probe fails (ProbeSpec explores every host).
SessionMachines ==
    {[product_name |-> [ok |-> TRUE, name |-> PN_WINDOWS_10_PRO],
      arch_env |-> [ok |-> TRUE, value |-> "AMD64"], avx2 |-> TRUE, fma |-> TRUE, bmi2 |-> TRUE],
     [product_name |-> [ok |-> FALSE, name |-> <<>>],
      arch_env |-> [ok |-> TRUE, value |-> "ARM64"], avx2 |-> FALSE, fma |-> FALSE, bmi2 |-> FALSE]}

NoState == St("FetchingLatestVersion", <<>>, "", FALSE)

Init ==
    /\ proc = "none"
    /\ sessions = 0
    /\ state = NoState
    /\ pending = <<>>
    /\ inbox = <<>>
    /\ platform = NoPlatform
    /\ \/ fs = FreshFs /\ reg = NoKey
       \/ fs = LegacyFs /\ reg = LegacyReg
    /\ machine \in SessionMachines
    /\ http = NoHttp
    /\ script = "absent"
    /\ exe_name = ""
    /\ phases = <<>>

(***************************************************************************)
(* Actions                                                                 *)
(***************************************************************************)
\* The user starts the installer (or the uninstaller copy of it): main.rs:213-218.
StartSession ==
    /\ proc = "none"
    /\ script = "absent"
    /\ sessions < MaxSessions
    /\ \E name \in ExeNames :
          LET r == State_new(name)
          IN  /\ state' = r.state
              /\ pending' = Scheduled(r)
              /\ exe_name' = name
              /\ phases' = <<Phase(r.state)>>
    /\ proc' = "running"
    /\ sessions' = sessions + 1
    /\ inbox' = <<>>
    /\ platform' = NoPlatform
    /\ UNCHANGED <<fs, reg, machine, http, script>>

\* The user closes the window while nothing is in flight: the process and its
\* State are gone.
CloseSession ==
    /\ proc = "running"
    /\ InFlight = 0
    /\ proc' = "none"
    /\ state' = NoState
    /\ exe_name' = ""
    /\ phases' = <<>>
    /\ platform' = NoPlatform
    /\ http' = NoHttp
    /\ UNCHANGED <<sessions, pending, inbox, fs, reg, machine, script>>

\* The runtime hands a finished task's message to State::update, then State::view
\* renders the new state (probing the platform when it shows GotLatestVersion).
Update ==
    /\ proc = "running"
    /\ inbox # <<>>
    /\ LET r == update(Head(inbox))
       IN  /\ state' = r.state
           /\ phases' = Append(phases, Phase(r.state))
           /\ pending' = pending \o Scheduled(r)
           /\ platform' = IF r.state.tag = "GotLatestVersion" THEN probe(machine) ELSE platform
    /\ inbox' = Tail(inbox)
    /\ UNCHANGED <<proc, sessions, fs, reg, machine, http, script, exe_name>>

\* The task of State::new runs: util::get_latest_version.
RunGetLatestVersion ==
    /\ proc = "running"
    /\ pending # <<>>
    /\ Head(pending).op = "get_latest_version"
    /\ \E resp \in VersionResponses :
          LET res == get_latest_version(resp)
          IN  /\ inbox' = Append(inbox, Msg("GotLatestVersion", res.ok, res.version, NO_BYTES, res.err))
              /\ http' = [op |-> "get_latest_version", url |-> <<>>, sent |-> resp.sent,
                           status |-> resp.status, resolved |-> res.version]
    /\ pending' = Tail(pending)
    /\ UNCHANGED <<proc, sessions, state, platform, fs, reg, machine, script, exe_name, phases>>

\* The user presses Download / Update: Message::Download(version, os, arch).
PressDownload ==
    /\ proc = "running"
    /\ view_offers_download(state, platform)
    /\ LET r == on_Download(state.version, platform.os.os, platform.arch)
       IN  /\ state' = r.state
           /\ phases' = Append(phases, Phase(r.state))
           /\ pending' = pending \o Scheduled(r)
    /\ UNCHANGED <<proc, sessions, inbox, platform, fs, reg, machine, http, script, exe_name>>

\* util::download runs.
RunDownload ==
    /\ proc = "running"
    /\ pending # <<>>
    /\ Head(pending).op = "download"
    /\ \E resp \in ArchiveResponses :
          LET t == Head(pending)
              res == download(t.version, resp)
          IN  /\ inbox' = Append(inbox, Msg("Downloaded", res.ok, res.version, res.bytes, res.err))
              /\ http' = [op |-> "download", url |-> download_url(t.version, t.os, t.arch),
                           sent |-> resp.sent, status |-> resp.status,
                           resolved |-> http.resolved]
    /\ pending' = Tail(pending)
    /\ UNCHANGED <<proc, sessions, state, platform, fs, reg, machine, script, exe_name, phases>>

\* util::install runs.
RunInstall ==
    /\ proc = "running"
    /\ pending # <<>>
    /\ Head(pending).op = "install"
    /\ \E fail \in InstallFailPoints :
          LET res == install(fs, reg, Head(pending).version, Head(pending).bytes, fail)
          IN  /\ fs' = res.fs
              /\ reg' = res.reg
              /\ inbox' = Append(inbox, Msg("Installed", res.ok, res.version, NO_BYTES, res.err))
    /\ pending' = Tail(pending)
    /\ UNCHANGED <<proc, sessions, state, platform, machine, http, script, exe_name, phases>>

\* The user presses Uninstall: Message::AskUninstallConfirmation.
PressUninstall ==
    /\ proc = "running"
    /\ view_offers_uninstall(state, fs)
    /\ LET r == on_AskUninstallConfirmation
       IN  /\ state' = r.state
           /\ phases' = Append(phases, Phase(r.state))
           /\ pending' = pending \o Scheduled(r)
    /\ UNCHANGED <<proc, sessions, inbox, platform, fs, reg, machine, http, script, exe_name>>

\* The user presses Proceed: Message::Uninstall(is_uninstaller).
PressProceed ==
    /\ proc = "running"
    /\ view_offers_proceed(state)
    /\ LET r == on_Uninstall(state.is_uninstaller)
       IN  /\ state' = r.state
           /\ phases' = Append(phases, Phase(r.state))
           /\ pending' = pending \o Scheduled(r)
    /\ UNCHANGED <<proc, sessions, inbox, platform, fs, reg, machine, http, script, exe_name>>

\* util::uninstall runs.  When it has launched the cleanup script the process
\* terminates instead of returning.
RunUninstall ==
    /\ proc = "running"
    /\ pending # <<>>
    /\ Head(pending).op = "uninstall"
    /\ \E fails \in UninstallFaultSets :
          LET res == uninstall(fs, reg, Head(pending).is_uninstaller, fails)
          IN  /\ fs' = res.fs
              /\ reg' = res.reg
              /\ IF res.spawned
                 THEN /\ script' = "sleeping"
                      /\ proc' = "exiting"
                      /\ inbox' = inbox
                 ELSE /\ script' = script
                      /\ proc' = proc
                      /\ inbox' = Append(inbox, Msg("Uninstalled", res.ok, <<>>, NO_BYTES, res.err))
    /\ pending' = Tail(pending)
    /\ UNCHANGED <<sessions, state, platform, machine, http, exe_name, phases>>

\* The uninstaller process terminates after launching the cleanup script.
ProcessExit ==
    /\ proc = "exiting"
    /\ proc' = "none"
    /\ state' = NoState
    /\ exe_name' = ""
    /\ phases' = <<>>
    /\ platform' = NoPlatform
    /\ http' = NoHttp
    /\ UNCHANGED <<sessions, pending, inbox, fs, reg, machine, script>>

\* The cleanup script: sleep, attempt the recursive delete, repeat until the
\* directory is gone, then delete itself.  The delete fails while the launching
\* executable, which lives in the directory, is still running.
ScriptSleep ==
    /\ script = "sleeping"
    /\ script' = "deleting"
    /\ UNCHANGED <<proc, sessions, state, pending, inbox, platform, fs, reg, machine, http, exe_name, phases>>

\* the script attempting the delete once, without the loop
ScriptDelete_NoRetry ==
    /\ script = "deleting"
    /\ script' = "gone"
    /\ fs' = IF proc = "exiting" /\ exists(fs, INSTALL_DIR) THEN fs
             ELSE remove_dir_all(fs, INSTALL_DIR)
    /\ UNCHANGED <<proc, sessions, state, pending, inbox, platform, reg, machine, http, exe_name, phases>>

ScriptDelete ==
    /\ script = "deleting"
    /\ IF proc = "exiting" /\ exists(fs, INSTALL_DIR)
       THEN /\ script' = "sleeping"
            /\ fs' = fs
       ELSE /\ script' = "gone"
            /\ fs' = remove_dir_all(fs, INSTALL_DIR)
    /\ UNCHANGED <<proc, sessions, state, pending, inbox, platform, reg, machine, http, exe_name, phases>>

ScriptSelfDelete ==
    /\ script = "gone"
    /\ script' = "absent"
    /\ fs' = remove_file(fs, CLEANUP_SCRIPT_PATH)
    /\ UNCHANGED <<proc, sessions, state, pending, inbox, platform, reg, machine, http, exe_name, phases>>

Next ==
    \/ StartSession
    \/ CloseSession
    \/ Update
    \/ RunGetLatestVersion
    \/ PressDownload
    \/ RunDownload
    \/ RunInstall
    \/ PressUninstall
    \/ PressProceed
    \/ RunUninstall
    \/ ProcessExit
    \/ ScriptSleep
    \/ ScriptDelete
    \/ ScriptSelfDelete

Spec == Init /\ [][Next]_vars

(***************************************************************************)
(* The platform probe on its own: every host, probed once.                 *)
(***************************************************************************)
InitProbe ==
    /\ proc = "none"
    /\ sessions = 0
    /\ state = NoState
    /\ pending = <<>>
    /\ inbox = <<>>
    /\ platform = NoPlatform
    /\ fs = FreshFs
    /\ reg = NoKey
    /\ machine \in Machines
    /\ http = NoHttp
    /\ script = "absent"
    /\ exe_name = ""
    /\ phases = <<>>

\* State::view, main.rs:89-90
Probe ==
    /\ ~platform.probed
    /\ platform' = probe(machine)
    /\ UNCHANGED <<proc, sessions, state, pending, inbox, fs, reg, machine, http, script, exe_name, phases>>

ProbeSpec == InitProbe /\ [][Probe]_vars

(***************************************************************************)
(* The download on its own: a session that shows GotLatestVersion(version), *)
(* for every short version string over characters of the URL's own text and *)
(* every Os and Arch, whose Download button is pressed and whose download   *)
(* runs.                                                                    *)
(***************************************************************************)
VersionChars == {"1", "/", "T", "-"}

UrlVersions == UNION {[1..n -> VersionChars] : n \in 0..MaxVersionLen}

\* one host for every Os and Arch the probe can give
UrlMachines ==
    {[product_name |-> [ok |-> TRUE, name |-> n], arch_env |-> e,
      avx2 |-> x, fma |-> x, bmi2 |-> x] :
        n \in {PN_WINDOWS_10, PN_WINDOWS_7},
        e \in {[ok |-> TRUE, value |-> "AMD64"], [ok |-> TRUE, value |-> "ARM64"],
               [ok |-> FALSE, value |-> ""]},
        x \in BOOLEAN}

InitUrl ==
    /\ proc = "running"
    /\ sessions = 1
    /\ exe_name = "TinyWiiBackupManagerInstaller.exe"
    /\ \E v \in UrlVersions :
          /\ state = St("GotLatestVersion", v, "", FALSE)
          /\ phases = <<Phase(NoState), Phase(St("GotLatestVersion", v, "", FALSE))>>
          /\ http = [op |-> "get_latest_version", url |-> <<>>, sent |-> TRUE,
                     status |-> 200, resolved |-> v]
    /\ pending = <<>>
    /\ inbox = <<>>
    /\ machine \in UrlMachines
    /\ platform = probe(machine)
    /\ fs = FreshFs
    /\ reg = NoKey
    /\ script = "absent"

UrlNext ==
    \/ PressDownload
    \/ RunDownload

UrlSpec == InitUrl /\ [][UrlNext]_vars

(***************************************************************************)
(* The session with the detached cleanup script and the exit of the        *)
(* process that launched it scheduled fairly.                              *)
(***************************************************************************)
LiveSpec ==
    /\ Spec
    /\ WF_vars(ProcessExit)
    /\ WF_vars(ScriptSleep)
    /\ WF_vars(ScriptDelete)
    /\ WF_vars(ScriptSelfDelete)

(***************************************************************************)
(* Properties                                                              *)
(***************************************************************************)
ShellPaths == {DESKTOP_SHORTCUT_PATH, START_MENU_DIR, START_MENU_SHORTCUT_PATH}

ShellFiles(f) == Restrict(f, ShellPaths)

Versions == {V1, V2_NL}

\* the calls of install() that come before the extraction and can fail on their own
CallsBeforeExtract == {"dirs", "remove_dir_all", "create_dir"}

\* C1: an install() call on bytes that parse as a zip but hold no executable
\* entry never returns Ok, returns ExecutableMissing (unless one of the
\* filesystem calls before the extraction failed first), and leaves the desktop
\* shortcut, the start-menu shortcut and the registry key exactly as they were.
\* Checked for every such call from every reachable disk and registry state.
C1_MissingExeWritesNoShellIntegration ==
    \A b \in Bytes, v \in Versions, fail \in InstallFailPoints :
        (ZipValid(b) /\ ~ZipHasExe(b)) =>
            LET r == install(fs, reg, v, b, fail)
            IN  /\ ~r.ok
                /\ (fail \notin CallsBeforeExtract => r.err = "ExecutableMissing")
                /\ ShellFiles(r.fs) = ShellFiles(fs)
                /\ r.reg = reg

\* The session shows the ExecutableMissing error of an install over an earlier
\* installation, whose shortcuts and registry key are as they were.
C1_Witness ==
    /\ proc = "running"
    /\ state.tag = "Errored"
    /\ state.msg = "ExecutableMissing"
    /\ ShellFiles(fs) = ShellFiles(LegacyFs)
    /\ reg = LegacyReg

\* C2: after an install attempt that failed with ExecutableMissing,
\* is_installed() does not report an installation.
C2_FailedInstallNotReportedInstalled ==
    (state.tag = "Errored" /\ state.msg = "ExecutableMissing") => ~is_installed(fs)

\* C3: install is idempotent: from every reachable disk and registry state, a
\* successful install followed by the same install (same version, same bytes)
\* succeeds again and ends in the state the first one ended in.
C3_InstallIdempotent ==
    \A b \in Bytes, v \in Versions :
        LET once == install(fs, reg, v, b, "none")
            twice == install(once.fs, once.reg, v, b, "none")
        IN  once.ok => (twice.ok /\ twice.fs = once.fs /\ twice.reg = once.reg)

\* The session has just installed version v from bytes b over an earlier
\* installation, and installing v from b again changes nothing.
C3_Witness ==
    /\ proc = "running"
    /\ state.tag = "Installed"
    /\ exists(fs, AUX_DATA_DIR)
    /\ \E b \in Bytes :
          /\ ZipHasExe(b)
          /\ fs[EXE_PATH] = ZipExe(b)
          /\ LET again == install(fs, reg, state.version, b, "none")
             IN  again.ok /\ again.fs = fs /\ again.reg = reg

\* the Arch the specification's section 4.1 gives a host
ExpectedArch(m) ==
    CASE m.arch_env = [ok |-> TRUE, value |-> "AMD64"] /\ m.avx2 /\ m.fma /\ m.bmi2 -> "X86_64v3"
      [] m.arch_env = [ok |-> TRUE, value |-> "AMD64"] /\ ~(m.avx2 /\ m.fma /\ m.bmi2) -> "X86_64"
      [] m.arch_env = [ok |-> TRUE, value |-> "ARM64"] -> "Aarch64"
      [] OTHER -> "I686"

\* C4: the probe selects x86-64-v3 only for AMD64 with AVX2, FMA and BMI2 all
\* present, x86-64 for AMD64 with any of them absent, Arm64 for ARM64 and 32-bit
\* x86 for every other or missing indicator.
C4_ArchProbe ==
    platform.probed =>
        /\ platform.arch = ExpectedArch(machine)
        /\ (platform.arch = "X86_64v3" => machine.avx2 /\ machine.fma /\ machine.bmi2)

\* An AMD64 host with AVX2 and FMA but no BMI2 was probed as plain x86-64.
C4_Witness ==
    /\ platform.probed
    /\ machine.arch_env = [ok |-> TRUE, value |-> "AMD64"]
    /\ machine.avx2 /\ machine.fma /\ ~machine.bmi2
    /\ platform.arch = "X86_64"

\* C5: the OS probe never fails: it gives Modern (Os::Windows) exactly when the
\* product name was read and holds the marker, and Legacy (Os::Windows7) when
\* the marker is absent and when the product name cannot be read.
C5_OsProbeTotal ==
    platform.probed =>
        /\ platform.os.ok
        /\ platform.os.os =
              IF machine.product_name.ok /\ contains(machine.product_name.name, MARKER_WINDOWS_10)
              THEN "Windows" ELSE "Windows7"

\* C6: once uninstall(false) has returned success (its Ok is in flight to the
\* session, or the session shows Uninstalled) none of the desktop shortcut, the
\* start-menu shortcut, the registry key and the install directory exists.
C6_UninstallCompleteness ==
    (\/ state.tag = "Uninstalled"
     \/ (inbox # <<>> /\ Head(inbox).tag = "Uninstalled" /\ Head(inbox).ok))
    => /\ ~exists(fs, DESKTOP_SHORTCUT_PATH)
       /\ ~exists(fs, START_MENU_DIR)
       /\ ~exists(fs, START_MENU_SHORTCUT_PATH)
       /\ ~reg.exists
       /\ ~exists(fs, INSTALL_DIR)

\* The session shows Uninstalled.
C6_Witness ==
    /\ proc = "running"
    /\ state.tag = "Uninstalled"
    /\ sessions = 1

\* C7: once the uninstaller has launched the cleanup script, eventually the
\* install directory is gone and the script has deleted itself.
C7_SelfDestructLiveness ==
    (script = "sleeping")
        ~> (script = "absent" /\ ~exists(fs, INSTALL_DIR) /\ ~exists(fs, CLEANUP_SCRIPT_PATH))

\* The script attempts the delete while the process that launched it is still
\* running from the install directory.
C7_Witness ==
    /\ script = "deleting"
    /\ proc = "exiting"
    /\ exists(fs, INSTALL_DIR)
    /\ exists(fs, CLEANUP_SCRIPT_PATH)

\* an uninstall that has started and has not finished with success
UninstallInProgress ==
    \/ state.tag = "Uninstalling"
    \/ (state.tag = "Errored" /\ state.msg \in {"UninstallError", "SelfDestructSpawnError"})
    \/ proc = "exiting"
    \/ script # "absent"

\* C8: with no operation in flight and outside an uninstall transaction, when
\* the install directory is absent or holds no executable, no desktop shortcut,
\* start-menu shortcut or registry key exists.
C8_ShellIntegrationNeverOutlivesInstall ==
    (proc = "running" /\ InFlight = 0 /\ ~UninstallInProgress /\ ~exists(fs, EXE_PATH))
    => /\ ~exists(fs, DESKTOP_SHORTCUT_PATH)
       /\ ~exists(fs, START_MENU_SHORTCUT_PATH)
       /\ ~reg.exists

\* the phase during which an operation is in flight
PhaseOfOp(op) ==
    CASE op = "get_latest_version" -> "FetchingLatestVersion"
      [] op = "download" -> "Downloading"
      [] op = "install" -> "Installing"
      [] op = "uninstall" -> "Uninstalling"

PhaseOfMessage(tag) ==
    CASE tag = "GotLatestVersion" -> "FetchingLatestVersion"
      [] tag = "Downloaded" -> "Downloading"
      [] tag = "Installed" -> "Installing"
      [] tag = "Uninstalled" -> "Uninstalling"

\* C9: at most one asynchronous operation is in flight, and it is the one of
\* the session's phase: a phase that offers the user an action has none.
C9_SingleOperationInFlight ==
    /\ InFlight <= 1
    /\ \A i \in 1..Len(pending) : state.tag = PhaseOfOp(pending[i].op)
    /\ \A i \in 1..Len(inbox) : state.tag = PhaseOfMessage(inbox[i].tag)
    /\ (view_offers_download(state, platform) \/ view_offers_uninstall(state, fs)
        \/ view_offers_proceed(state)) => InFlight = 0

\* The install transaction is the one operation in flight.
C9_Witness ==
    /\ proc = "running"
    /\ state.tag = "Installing"
    /\ Len(pending) = 1
    /\ pending[1].op = "install"
    /\ inbox = <<>>

\* C10: after an archive fetch that failed, by a transport error or by a
\* non-success status, the session is not in Installing (nor Installed) and no
\* install is scheduled.
C10_FailedFetchNeverInstalls ==
    (http.op = "download" /\ (~http.sent \/ http.status # 200))
    => /\ state.tag \notin {"Installing", "Installed"}
       /\ \A i \in 1..Len(pending) : pending[i].op # "install"

\* the install directory and what it holds
InstallDirFiles(f) == Restrict(f, {INSTALL_DIR} \cup Under(INSTALL_DIR))

\* an install(version, bytes) call is about to run
InstallScheduled == pending # <<>> /\ Head(pending).op = "install"

\* C11: every install(version, bytes) call of the session that returns Ok,
\* whatever the disk and registry hold when it runs, returns the version it was
\* given, leaves in the install directory exactly the extracted executable and
\* the uninstall helper, and sets the registry DisplayVersion to that version;
\* and the Ok the session receives carries the version of its Installing state
\* and finds the disk and registry so.
C11_InstallPostcondition ==
    /\ InstallScheduled =>
          \A fail \in InstallFailPoints :
              LET v == Head(pending).version
                  b == Head(pending).bytes
                  r == install(fs, reg, v, b, fail)
              IN  r.ok =>
                    /\ r.version = v
                    /\ InstallDirFiles(r.fs) =
                          (INSTALL_DIR :> DIR) @@ (EXE_PATH :> ZipExe(b))
                          @@ (UNINSTALLER_PATH :> UNINSTALL_PS1)
                    /\ r.reg.exists
                    /\ r.reg.values["DisplayVersion"] = v
    /\ \A i \in 1..Len(inbox) :
          (inbox[i].tag = "Installed" /\ inbox[i].ok) =>
                /\ inbox[i].version = state.version
                /\ DOMAIN InstallDirFiles(fs) = {INSTALL_DIR, EXE_PATH, UNINSTALLER_PATH}
                /\ fs[UNINSTALLER_PATH] = UNINSTALL_PS1
                /\ reg.exists
                /\ reg.values["DisplayVersion"] = inbox[i].version

\* An install over the earlier installation (whose data directory is still
\* there) has returned Ok: uninstall.exe of the earlier installation is gone and
\* DisplayVersion is the new version.
C11_Witness ==
    /\ inbox # <<>>
    /\ Head(inbox).tag = "Installed"
    /\ Head(inbox).ok
    /\ Head(inbox).version = V2_NL
    /\ exists(fs, AUX_DATA_DIR)
    /\ ~exists(fs, UNINSTALL_EXE_PATH)
    /\ fs[EXE_PATH] = ZipExe(ZIP_B)
    /\ reg.values["DisplayVersion"] = V2_NL

\* the variants the running session has been in
PhaseTags == {phases[i].tag : i \in 1..Len(phases)}

\* C12 as stated: from CouldNotFetchLatestVersion the session goes nowhere,
\* except by ending (a new session starts over), and schedules nothing.
C12_ResolveFailedTerminal ==
    [][(proc = "running" /\ state.tag = "CouldNotFetchLatestVersion") =>
          /\ pending' = <<>>
          /\ (state'.tag = "CouldNotFetchLatestVersion" \/ proc' = "none")]_vars

\* C12 as amended: from CouldNotFetchLatestVersion the session goes only to
\* AskingUninstallConfirmation(false), by the Uninstall button shown when an
\* installation is detected, or ends; nothing is scheduled or in flight in that
\* state; and once resolution has failed the session never shows
\* GotLatestVersion, Downloading, Installing or Installed.
C12_ResolveFailedLeavesOnlyToUninstall ==
    [][(proc = "running" /\ "CouldNotFetchLatestVersion" \in PhaseTags) =>
          /\ (state.tag = "CouldNotFetchLatestVersion" =>
                /\ InFlight = 0
                /\ pending' = <<>>
                /\ inbox' = <<>>
                /\ \/ state'.tag = "CouldNotFetchLatestVersion"
                   \/ proc' = "none"
                   \/ /\ state'.tag = "AskingUninstallConfirmation"
                      /\ ~state'.is_uninstaller
                      /\ is_installed(fs))
          /\ (proc' = "running" =>
                state'.tag \notin {"FetchingLatestVersion", "GotLatestVersion", "Downloading",
                                   "Installing", "Installed"})]_vars

\* The session asks for the uninstall confirmation right after the version
\* resolution failed.
C12_Witness ==
    /\ proc = "running"
    /\ state.tag = "AskingUninstallConfirmation"
    /\ Len(phases) = 3
    /\ phases[2].tag = "CouldNotFetchLatestVersion"
    /\ state.msg = ""

\* the states that show a failure and its reason
FailurePhases == {"CouldNotFetchLatestVersion", "Errored"}

\* C13: when State::update is handed the failure of an operation, the session
\* enters a failure state carrying that operation's error and schedules
\* nothing; and in a failure state nothing is in flight, no step schedules
\* anything, and the state changes only by a user action: the Uninstall button
\* (AskingUninstallConfirmation) or the end of the session.
C13_NoAutomaticRetry ==
    [][/\ (proc = "running" /\ inbox # <<>> /\ ~Head(inbox).ok /\ inbox' # inbox) =>
             /\ state'.tag \in FailurePhases
             /\ state'.msg = Head(inbox).err
             /\ state'.msg # ""
             /\ pending' = <<>>
             /\ inbox' = <<>>
       /\ (proc = "running" /\ state.tag \in FailurePhases) =>
             /\ InFlight = 0
             /\ pending' = <<>>
             /\ inbox' = <<>>
             /\ \/ state' = state
                \/ proc' = "none"
                \/ /\ state.tag = "CouldNotFetchLatestVersion"
                   /\ view_offers_uninstall(state, fs)
                   /\ state'.tag = "AskingUninstallConfirmation"]_vars

\* The download failed and the session shows its error, with nothing in flight.
C13_Witness ==
    /\ proc = "running"
    /\ state.tag = "Errored"
    /\ state.msg = "FetchError"
    /\ phases[Len(phases) - 1].tag = "Downloading"
    /\ InFlight = 0

\* what str::trim strips
Whitespace == {" ", "\n", "\t", "\r"}

\* the string has no leading and no trailing whitespace
Trimmed(str) == str = <<>> \/ (str[1] \notin Whitespace /\ str[Len(str)] \notin Whitespace)

\* C14: the version get_latest_version returns, the version the session then
\* shows and downloads, and the version in the download URL's task have no
\* leading or trailing whitespace.
C14_ResolvedVersionTrimmed ==
    /\ \A i \in 1..Len(inbox) :
          (inbox[i].tag = "GotLatestVersion" /\ inbox[i].ok) => Trimmed(inbox[i].version)
    /\ (state.tag \in {"GotLatestVersion", "Downloading"}) => Trimmed(state.version)
    /\ \A i \in 1..Len(pending) : pending[i].op = "download" => Trimmed(pending[i].version)

\* the tokens the specification's section 6 gives an Os and an Arch
ExpectedOsToken(os) ==
    CASE os = "Windows" -> <<"w", "i", "n", "d", "o", "w", "s">>
      [] os = "Windows7" -> <<"w", "i", "n", "d", "o", "w", "s", "7">>

ExpectedArchToken(arch) ==
    CASE arch = "I686" -> <<"x", "8", "6">>
      [] arch = "X86_64" -> <<"x", "8", "6", "_", "6", "4">>
      [] arch = "X86_64v3" -> <<"x", "8", "6", "_", "6", "4", "-", "v", "3">>
      [] arch = "Aarch64" -> <<"a", "r", "m", "6", "4">>

\* C15: the URL a download asked for is the release prefix, the version (the
\* tag), the file-name prefix, the version again, then "-", the Os token, "-",
\* the Arch token and ".zip", with the tokens of the specification; and no
\* other (version, Os, Arch) gives the same URL.
C15_DownloadUrl ==
    http.op = "download" =>
        LET v == state.version
            url == http.url
            tag_at == Len(URL_RELEASE)
            file_at == tag_at + Len(v) + Len(URL_FILE)
        IN  /\ SubSeq(url, 1, tag_at) = URL_RELEASE
            /\ SubSeq(url, tag_at + 1, tag_at + Len(v)) = v
            /\ SubSeq(url, tag_at + Len(v) + 1, file_at) = URL_FILE
            /\ SubSeq(url, file_at + 1, file_at + Len(v)) = v
            /\ SubSeq(url, file_at + Len(v) + 1, Len(url)) =
                  <<"-">> \o ExpectedOsToken(platform.os.os) \o <<"-">>
                  \o ExpectedArchToken(platform.arch) \o <<".", "z", "i", "p">>
            /\ \A v2 \in UrlVersions, os2 \in {"Windows", "Windows7"},
                  arch2 \in {"I686", "X86_64", "X86_64v3", "Aarch64"} :
                  download_url(v2, os2, arch2) = url =>
                      (v2 = v /\ os2 = platform.os.os /\ arch2 = platform.arch)

\* The download of version "1/" for Windows 7 on x86-64-v3 has asked for its URL.
C15_Witness ==
    /\ http.op = "download"
    /\ state.tag = "Downloading"
    /\ state.version = <<"1", "/">>
    /\ platform.os.os = "Windows7"
    /\ platform.arch = "X86_64v3"
    /\ Len(http.url) = Len(URL_RELEASE) + Len(URL_FILE) + 4 + 1 + 8 + 1 + 9 + 4

\* C16: every install() call of the session on bytes that do not parse as a
\* zip, whichever other call would fail, never returns Ok, returns
\* CorruptArchive (unless the directories could not be resolved, which comes
\* first), and leaves the whole disk and the registry key exactly as they were.
C16_CorruptArchiveTouchesNothing ==
    (InstallScheduled /\ ~ZipValid(Head(pending).bytes)) =>
        \A fail \in InstallFailPoints :
            LET r == install(fs, reg, Head(pending).version, Head(pending).bytes, fail)
            IN  /\ ~r.ok
                /\ (fail # "dirs" => r.err = "CorruptArchive")
                /\ r.fs = fs
                /\ r.reg = reg

\* The session shows the CorruptArchive error of an install over the earlier
\* installation, which is all there.
C16_Witness ==
    /\ proc = "running"
    /\ state.tag = "Errored"
    /\ state.msg = "CorruptArchive"
    /\ fs = LegacyFs
    /\ reg = LegacyReg

\* the step of install() a failing call belongs to: 0 resolve the directories,
\* 1 open the archive, 2 rebuild the install directory, 3 extract the executable
\* and write the uninstall helper, 4 desktop shortcut, 5 start-menu shortcut,
\* 6 registry record
StepOfCall(fail) ==
    CASE fail = "dirs" -> 0
      [] fail \in {"remove_dir_all", "create_dir"} -> 2
      [] fail \in {"file_create", "io_copy", "write_uninstaller"} -> 3
      [] fail \in {"remove_lnk", "shell_link_new", "create_lnk"} -> 4
      [] fail \in {"remove_start_menu", "create_start_menu", "copy_lnk"} -> 5
      [] OTHER -> 6

\* the step at which the failed run r stopped
FailedStep(r, fail) ==
    IF r.err = "CorruptArchive" THEN 1
    ELSE IF r.err = "ExecutableMissing" THEN 3
    ELSE StepOfCall(fail)

StartMenuFiles(f) == Restrict(f, {START_MENU_DIR, START_MENU_SHORTCUT_PATH})

DesktopFiles(f) == Restrict(f, {DESKTOP_SHORTCUT_PATH})

\* what the steps of a run leave when they have completed
Rebuilt(f) == exists(f, INSTALL_DIR) /\ ~exists(f, UNINSTALL_EXE_PATH)

Extracted(f, b) ==
    /\ exists(f, EXE_PATH) /\ f[EXE_PATH] = ZipExe(b)
    /\ exists(f, UNINSTALLER_PATH) /\ f[UNINSTALLER_PATH] = UNINSTALL_PS1

DesktopWritten(f) == exists(f, DESKTOP_SHORTCUT_PATH) /\ f[DESKTOP_SHORTCUT_PATH] = SHELL_LINK

StartMenuWritten(f) ==
    exists(f, START_MENU_SHORTCUT_PATH) /\ f[START_MENU_SHORTCUT_PATH] = SHELL_LINK

\* C17: for every install() call of the session and every call in it that can
\* fail: a run that fails at step k has left what the steps before k write and
\* has not touched what the steps after k write; a run that succeeds has left
\* all of it; and whenever a run has changed the registry key, the executable
\* was extracted and both shortcuts were written.
C17_StepOrderNoRollback ==
    InstallScheduled =>
    \A fail \in InstallFailPoints :
        LET v == Head(pending).version
            b == Head(pending).bytes
            r == install(fs, reg, v, b, fail)
            k == IF r.ok THEN 7 ELSE FailedStep(r, fail)
        IN  /\ (k <= 2) => (~exists(r.fs, EXE_PATH) \/ r.fs = fs)
            /\ (k <= 1) => r.fs = fs
            /\ (k <= 3) => DesktopFiles(r.fs) = DesktopFiles(fs)
            /\ (k <= 4) => StartMenuFiles(r.fs) = StartMenuFiles(fs)
            /\ (k <= 5) => r.reg = reg
            /\ (k > 2) => Rebuilt(r.fs)
            /\ (k > 3) => Extracted(r.fs, b)
            /\ (k > 4) => DesktopWritten(r.fs)
            /\ (k > 5) => StartMenuWritten(r.fs)
            /\ (k > 6) => r.reg = [exists |-> TRUE,
                                   values |-> ApplyWrites(reg.values, RegWrites(v), 8)]
            /\ (r.reg # reg) => (Extracted(r.fs, b) /\ DesktopWritten(r.fs)
                                 /\ StartMenuWritten(r.fs))

\* On a machine that had no installation, the install failed while writing the
\* registry values: the key holds DisplayName only, and the executable and both
\* shortcuts are in place.
C17_Witness ==
    /\ proc = "running"
    /\ state.tag = "Errored"
    /\ state.msg = "ShellIntegrationError"
    /\ ~exists(fs, AUX_DATA_DIR)
    /\ reg.exists
    /\ DOMAIN reg.values = {"DisplayName"}
    /\ exists(fs, EXE_PATH)
    /\ DesktopWritten(fs)
    /\ StartMenuWritten(fs)

\* C18: in every state a step of a running session leads to: the uninstall that
\* is scheduled, and the confirmation that is shown, carry the flag true exactly
\* when the process is named uninstall.exe; such a process started in
\* AskingUninstallConfirmation and never asks for the latest version; every
\* other process started in FetchingLatestVersion and enters
\* AskingUninstallConfirmation only by a step taken while the Uninstall button
\* is shown; and the cleanup script is launched only by a process named
\* uninstall.exe.
C18_SelfDestructIffUninstaller ==
    [][/\ (proc' = "running") =>
             /\ \A i \in 1..Len(pending') :
                   pending'[i].op = "uninstall" =>
                       (pending'[i].is_uninstaller <=> exe_name' = "uninstall.exe")
             /\ (state'.tag = "AskingUninstallConfirmation") =>
                   (state'.is_uninstaller <=> exe_name' = "uninstall.exe")
             /\ (exe_name' = "uninstall.exe") =>
                   /\ phases'[1].tag = "AskingUninstallConfirmation"
                   /\ \A i \in 1..Len(phases') : phases'[i].tag # "FetchingLatestVersion"
                   /\ \A i \in 1..Len(pending') : pending'[i].op = "uninstall"
                   /\ http' = http
             /\ (exe_name' # "uninstall.exe") =>
                   phases'[1].tag = "FetchingLatestVersion"
       /\ (/\ proc = "running" /\ proc' = "running"
           /\ exe_name # "uninstall.exe"
           /\ state.tag # "AskingUninstallConfirmation"
           /\ state'.tag = "AskingUninstallConfirmation") =>
             (view_offers_uninstall(state, fs) /\ pending' = <<>>)
       /\ (script = "absent" /\ script' # "absent") => exe_name = "uninstall.exe"]_vars

\* The process named uninstall.exe, started in the confirmation, has scheduled
\* uninstall(true).
C18_Witness ==
    /\ proc = "running"
    /\ exe_name = "uninstall.exe"
    /\ phases = <<Phase(St("AskingUninstallConfirmation", <<>>, "", TRUE)),
                  Phase(St("Uninstalling", <<>>, "", FALSE))>>
    /\ Len(pending) = 1
    /\ pending[1].op = "uninstall"
    /\ pending[1].is_uninstaller

\* C19: when the session shows Installed(v) it has been, in this order, in
\* FetchingLatestVersion, GotLatestVersion(v), Downloading(v), Installing(v) and
\* Installed(v), with v the string get_latest_version returned; and when it
\* shows Installing(v), the last exchange is the download of v's URL and it was
\* answered with success.
C19_VersionThreaded ==
    /\ (state.tag = "Installed") =>
          /\ phases = <<[tag |-> "FetchingLatestVersion", version |-> <<>>],
                        [tag |-> "GotLatestVersion", version |-> state.version],
                        [tag |-> "Downloading", version |-> state.version],
                        [tag |-> "Installing", version |-> state.version],
                        [tag |-> "Installed", version |-> state.version]>>
          /\ http.resolved = state.version
    /\ (state.tag = "Installing") =>
          /\ http.op = "download"
          /\ http.url = download_url(state.version, platform.os.os, platform.arch)
          /\ http.sent
          /\ http.status = 200

\* an uninstall(is_uninstaller) call is about to run
UninstallScheduled == pending # <<>> /\ Head(pending).op = "uninstall"

\* the order the specification's section 4.5 gives the calls of uninstall
UninstallOrder ==
    <<"remove_desktop", "remove_start_menu", "remove_aux", "delete_key",
      "remove_install_dir", "write_script", "spawn_script">>

StepIndex(c) == CHOOSE i \in 1..Len(UninstallOrder) : UninstallOrder[i] = c

\* C20: in every uninstall run of the session, whichever calls fail: the calls
\* are made in the order desktop shortcut, start-menu directory, auxiliary data
\* directory, registry key, then the install directory (removed directly, or
\* handed to the cleanup script); each of the four that is present is dealt
\* with, and is gone afterwards unless its removal failed; and the uninstaller
\* (flag true) never removes the install directory itself: when nothing fails
\* it returns success with the script launched and the directory as it was.
C20_ShellIntegrationRemovedFirst ==
    UninstallScheduled =>
    \A fails \in UninstallFaultSets :
        LET t == Head(pending)
            r == uninstall(fs, reg, t.is_uninstaller, fails)
            made == {r.steps[i] : i \in 1..Len(r.steps)}
        IN  /\ \A i, j \in 1..Len(r.steps) :
                  i < j => StepIndex(r.steps[i]) < StepIndex(r.steps[j])
            /\ ("remove_desktop" \in made) <=> exists(fs, DESKTOP_SHORTCUT_PATH)
            /\ ("remove_start_menu" \in made) <=> exists(fs, START_MENU_DIR)
            /\ ("remove_aux" \in made) <=> exists(fs, AUX_DATA_DIR)
            /\ ("delete_key" \in made) <=> reg.exists
            /\ exists(r.fs, DESKTOP_SHORTCUT_PATH) <=>
                  (exists(fs, DESKTOP_SHORTCUT_PATH) /\ "remove_desktop" \in fails)
            /\ exists(r.fs, START_MENU_DIR) <=>
                  (exists(fs, START_MENU_DIR) /\ "remove_start_menu" \in fails)
            /\ exists(r.fs, AUX_DATA_DIR) <=>
                  (exists(fs, AUX_DATA_DIR) /\ "remove_aux" \in fails)
            /\ r.reg.exists <=> (reg.exists /\ "delete_key" \in fails)
            /\ IF t.is_uninstaller
               THEN /\ "remove_install_dir" \notin made
                    /\ "write_script" \in made
                    /\ InstallDirFiles(r.fs) = InstallDirFiles(fs)
                    /\ (fails = {}) => (r.ok /\ r.spawned)
               ELSE /\ "write_script" \notin made
                    /\ ("remove_install_dir" \in made) <=> exists(fs, INSTALL_DIR)
                    /\ ~r.spawned

\* The uninstaller has launched the cleanup script and is terminating: the
\* shortcuts, the data directory and the registry key are gone, the install
\* directory is still there.
C20_Witness ==
    /\ proc = "exiting"
    /\ script = "sleeping"
    /\ exists(fs, INSTALL_DIR)
    /\ exists(fs, UNINSTALL_EXE_PATH)
    /\ ~exists(fs, DESKTOP_SHORTCUT_PATH)
    /\ ~exists(fs, START_MENU_DIR)
    /\ ~exists(fs, AUX_DATA_DIR)
    /\ ~reg.exists

====
